---- MODULE Spec2Model ----
(***************************************************************************)
(* The Rammbock session (src/proto/src/Rammbock.py) as a state machine.    *)
(*                                                                         *)
(* State: the six attributes _init_caches sets, the Protocol objects the   *)
(* session has created (a heap: the registry, the protocol in progress and *)
(* the message templates all hold references to the same objects), and     *)
(* `last`, the observable outcome of the last keyword call (the exception  *)
(* it raised, what it handed to the template, whether it touched the       *)
(* transport).                                                             *)
(*                                                                         *)
(* A container on the message stack is held by value together with its     *)
(* identity (id) and the identity of its parent: a container is reachable  *)
(* for mutation only through its stack slot, so no aliasing is lost.       *)
(* Python values: None is the string "None" for scalars, the id 0 for      *)
(* object references; a dict is a function on a set of strings.            *)
(***************************************************************************)
EXTENDS Integers, Sequences, FiniteSets, TLC

VARIABLES protocol_in_progress, protocols, protoObjs, servers, clients,
          message_stack, field_values, last

vars == <<protocol_in_progress, protocols, protoObjs, servers, clients,
          message_stack, field_values, last>>

\* ------------------------------------------------------------------ bounds
\* Containers (the message template included) and primitive fields (uint, chars,
\* pdu) the protocols and the message stack hold in all at a time.
MaxSize == 2

\* ------------------------------------------------------------------ inputs
ProtocolNames == {"p", "q"}
ClientNames == {"c"}
ServerNames == {"s"}
\* uint(length, name, value)
UIntArgs == {[length |-> 4, name |-> "length", value |-> "None"]}
\* chars(length, name, value)
CharArgs == {[length |-> 1, name |-> "f", value |-> "a"]}
\* pdu(length): the length expression "length-4"
PduArgs == {[field |-> "length", subtractor |-> 4]}
\* value(name, value)
ValueNames == {"f"}
ValueValues == {<<"1">>}

\* A parameter token is a sequence of lexemes; ":" and "=" are lexemes of
\* their own, every other lexeme holds neither.
TokField == <<"f", ":", "2">>
TokConfig == <<"name", "=", "c">>
TokBad == <<"x">>
ParamLists == {<<>>, <<TokField>>, <<TokConfig>>, <<TokBad>>}
\* validate_message(msg, *parameters): also a field the message has not
TokMissing == <<"g", ":", "3">>
ExpectLists == ParamLists \cup {<<TokMissing>>, <<TokField, TokMissing>>}
\* struct(type, name, *parameters)
StructParams == {<<>>, <<TokBad>>}
\* new_message(name, protocol, *parameters)
NewMessageParams == {<<>>, <<TokBad>>}

\* ------------------------------------------------------------------ values
None == "None"
NoId == 0
EmptyDict == [k \in {} |-> None]
\* self._field_values is None or a dict
NoneDict == [none |-> TRUE, d |-> EmptyDict]
Dict(d) == [none |-> FALSE, d |-> d]

\* dict.update
Update(d, e) == [k \in DOMAIN d \cup DOMAIN e |-> IF k \in DOMAIN e THEN e[k] ELSE d[k]]

\* dict(list) of (key, value) pairs: a later pair wins
RECURSIVE ToDict(_)
ToDict(pairs) ==
    IF pairs = <<>> THEN EmptyDict
    ELSE LET n == Len(pairs)
             rest == ToDict(SubSeq(pairs, 1, n - 1))
         IN Update(rest, [k \in {pairs[n][1]} |-> pairs[n][2]])

\* The outcome of a keyword call.
\* closed: the nodes whose close() was called; validated, errors: whether
\* template.validate was called and what it returned; raised: the argument of
\* the AssertionError; pending, given: the field values that were recorded
\* when _populate_defaults took them and the ones it was given.
Outcome(op, arg, res) ==
    [op |-> op, arg |-> arg, res |-> res, consumed |-> FALSE, env |-> EmptyDict,
     tmpl |-> NoId, sent |-> FALSE, read |-> FALSE, closed |-> {}, validated |-> FALSE,
     errors |-> <<>>, raised |-> None, pending |-> EmptyDict, given |-> EmptyDict]

\* ------------------------------------------------------------------ templates
Protocol(name) == [name |-> name, fields |-> <<>>]

Primitive(type, name, length, value) ==
    [type |-> type, name |-> name, id |-> NoId, parent |-> NoId, fields |-> <<>>,
     length |-> length, value |-> value, protocol |-> NoId, params |-> EmptyDict]

StaticLength(n) == [static |-> TRUE, value |-> n, field |-> None, subtractor |-> 0]
DynamicLength(a) == [static |-> FALSE, value |-> 0, field |-> a.field, subtractor |-> a.subtractor]

UInt(a) == Primitive("uint", a.name, StaticLength(a.length), a.value)
Char(a) == Primitive("chars", a.name, StaticLength(a.length), a.value)
PDU(a) == Primitive("pdu", "__pdu__", DynamicLength(a), None)

Container(type, name, id, parent, protocol, params) ==
    [type |-> type, name |-> name, id |-> id, parent |-> parent, fields |-> <<>>,
     length |-> StaticLength(0), value |-> None, protocol |-> protocol, params |-> params]

MessageTemplate(name, id, protocol, header_fields) ==
    Container("message", name, id, NoId, protocol, header_fields)

\* The ids of the containers among fields, nested ones included
RECURSIVE IdsIn(_)
IdsIn(fields) ==
    IF fields = <<>> THEN {}
    ELSE (IF Head(fields).id = NoId THEN {} ELSE {Head(fields).id} \cup IdsIn(Head(fields).fields))
         \cup IdsIn(Tail(fields))

RECURSIVE IdsOf(_)
IdsOf(objs) ==
    IF objs = <<>> THEN {}
    ELSE IdsIn(Head(objs).fields) \cup IdsOf(Tail(objs))

\* The containers the session still refers to
LiveIds == IdsOf(protoObjs) \cup IdsIn(message_stack)

\* The id of a new object: one no live container has
FreshId(used) == CHOOSE i \in 1..MaxSize : i \notin used /\ \A j \in 1..(i - 1) : j \in used

\* The primitive fields held, nested ones included
RECURSIVE CountFields(_)
CountFields(fields) ==
    IF fields = <<>> THEN 0
    ELSE (IF Head(fields).id = NoId THEN 1 ELSE CountFields(Head(fields).fields))
         + CountFields(Tail(fields))

RECURSIVE CountAll(_)
CountAll(objs) ==
    IF objs = <<>> THEN 0 ELSE CountFields(Head(objs).fields) + CountAll(Tail(objs))

TotalFields == CountAll(protoObjs) + CountAll(message_stack)
\* Room for one more container or primitive field
Room == Cardinality(LiveIds) + TotalFields < MaxSize

\* ------------------------------------------------------------------ parameters
\* str.find: the 0-based index of the first occurrence, -1 when there is none
Find(param, ch) ==
    IF \E i \in 1..Len(param) : param[i] = ch
    THEN (CHOOSE i \in 1..Len(param) :
              param[i] = ch /\ \A j \in 1..(i - 1) : param[j] # ch) - 1
    ELSE -1

\* str.strip on a sequence of lexemes
RECURSIVE Strip(_)
Strip(s) ==
    IF s = <<>> THEN s
    ELSE IF Head(s) = " " THEN Strip(Tail(s))
    ELSE IF s[Len(s)] = " " THEN Strip(SubSeq(s, 1, Len(s) - 1))
    ELSE s

\* A stripped key holds no separator: it is one lexeme, or empty.
Word(s) == IF s = <<>> THEN "" ELSE s[1]

_name_and_value(separator, parameter) ==
    LET index == Find(parameter, separator)
    IN <<Word(Strip(SubSeq(parameter, 1, index))),
         Strip(SubSeq(parameter, index + 2, Len(parameter)))>>

\* _parse_entry that takes a token with both ':' and '=' for a field value
EntryKind_colon_first(param) ==
    IF Find(param, ":") = -1 /\ Find(param, "=") = -1 THEN "error"
    ELSE IF Find(param, ":") = -1 THEN "config"
    ELSE "field"

\* _parse_entry: "error", "field" or "config"
EntryKind(param) ==
    LET colon_index == Find(param, ":")
        equals_index == Find(param, "=")
    IN IF colon_index = -1 /\ equals_index = -1 THEN "error"
       ELSE IF equals_index = -1 THEN "field"
       ELSE IF colon_index = -1 \/ colon_index > equals_index THEN "config"
       ELSE "field"

_parse_entry(param) ==
    IF EntryKind(param) = "config" THEN _name_and_value("=", param)
    ELSE _name_and_value(":", param)

\* The parsed entries of the tokens of one kind, in order
RECURSIVE SelectKind(_, _)
SelectKind(parameters, kind) ==
    IF parameters = <<>> THEN <<>>
    ELSE IF EntryKind(Head(parameters)) = kind
         THEN <<_parse_entry(Head(parameters))>> \o SelectKind(Tail(parameters), kind)
         ELSE SelectKind(Tail(parameters), kind)

IsHeader(field) == field[1] = "header" /\ Find(field[2], ":") # -1

\* _get_headers: <<headers, fields>>
RECURSIVE HeadersOf(_)
HeadersOf(fields) ==
    IF fields = <<>> THEN <<>>
    ELSE IF IsHeader(Head(fields))
         THEN LET value == Head(fields)[2]
                  i == Find(value, ":")
              IN <<<<SubSeq(value, 1, i), SubSeq(value, i + 2, Len(value))>>>>
                 \o HeadersOf(Tail(fields))
         ELSE HeadersOf(Tail(fields))

RECURSIVE NonHeadersOf(_)
NonHeadersOf(fields) ==
    IF fields = <<>> THEN <<>>
    ELSE IF IsHeader(Head(fields)) THEN NonHeadersOf(Tail(fields))
         ELSE <<Head(fields)>> \o NonHeadersOf(Tail(fields))

_get_headers(fields) == <<HeadersOf(fields), NonHeadersOf(fields)>>

\* _parse_parameters: ok is FALSE when _parse_entry raises on a token
_parse_parameters(parameters) ==
    LET fields == SelectKind(parameters, "field")
        hf == _get_headers(fields)
    IN [ok |-> \A i \in 1..Len(parameters) : EntryKind(parameters[i]) # "error",
        configs |-> ToDict(SelectKind(parameters, "config")),
        fields |-> ToDict(hf[2]),
        headers |-> ToDict(hf[1])]

\* _populate_defaults that returns the parameters alone
_populate_defaults_fresh(fields) == Update(EmptyDict, fields)

\* _populate_defaults where a recorded value wins over a parameter
_populate_defaults_recorded_first(fields) == Update(fields, field_values.d)

\* _populate_defaults: the dict it returns
_populate_defaults(fields) == Update(field_values.d, fields)

\* _get_parameters_with_defaults: res is the exception raised ("ok": none);
\* consumed tells whether self._field_values was replaced by {}
\* _parse_parameters on each parameter list the keywords are called with
Parsed == [ps \in ExpectLists \cup NewMessageParams |-> _parse_parameters(ps)]

WithDefaults(p) ==
    IF ~p.ok
    THEN [res |-> "Exception", consumed |-> FALSE, configs |-> EmptyDict,
          fields |-> EmptyDict, headers |-> EmptyDict]
    ELSE IF field_values.none
    THEN [res |-> "AttributeError", consumed |-> FALSE, configs |-> EmptyDict,
          fields |-> EmptyDict, headers |-> EmptyDict]
    ELSE [res |-> "ok", consumed |-> TRUE, configs |-> p.configs,
          fields |-> _populate_defaults(p.fields), headers |-> p.headers]

_get_parameters_with_defaults(parameters) == WithDefaults(Parsed[parameters])

\* ------------------------------------------------------------------ Init
Init ==
    /\ protocol_in_progress = NoId
    /\ protocols = EmptyDict
    /\ protoObjs = <<>>
    /\ servers = {}
    /\ clients = {}
    /\ message_stack = <<>>
    /\ field_values = NoneDict
    /\ last = Outcome("init", None, "ok")

\* ------------------------------------------------------------------ protocols
\* start_protocol_description that takes up a registered protocol again
start_protocol_description_reopen(protocol_name) ==
    IF protocol_in_progress # NoId
    THEN /\ last' = Outcome("start_protocol_description", protocol_name, "Exception")
         /\ UNCHANGED <<protocol_in_progress, protocols, protoObjs, servers, clients,
                        message_stack, field_values>>
    ELSE IF protocol_name \in DOMAIN protocols
    THEN /\ protocol_in_progress' = protocols[protocol_name]
         /\ last' = Outcome("start_protocol_description", protocol_name, "ok")
         /\ UNCHANGED <<protocols, protoObjs, servers, clients, message_stack, field_values>>
    ELSE /\ protoObjs' = Append(protoObjs, Protocol(protocol_name))
         /\ protocol_in_progress' = Len(protoObjs) + 1
         /\ last' = Outcome("start_protocol_description", protocol_name, "ok")
         /\ UNCHANGED <<protocols, servers, clients, message_stack, field_values>>

\* start_protocol_description that does not look the name up in the registry
start_protocol_description_unchecked(protocol_name) ==
    IF protocol_in_progress # NoId
    THEN /\ last' = Outcome("start_protocol_description", protocol_name, "Exception")
         /\ UNCHANGED <<protocol_in_progress, protocols, protoObjs, servers, clients,
                        message_stack, field_values>>
    ELSE /\ protoObjs' = Append(protoObjs, Protocol(protocol_name))
         /\ protocol_in_progress' = Len(protoObjs) + 1
         /\ last' = Outcome("start_protocol_description", protocol_name, "ok")
         /\ UNCHANGED <<protocols, servers, clients, message_stack, field_values>>

start_protocol_description(protocol_name) ==
    IF protocol_in_progress # NoId
    THEN /\ last' = Outcome("start_protocol_description", protocol_name, "Exception")
         /\ UNCHANGED <<protocol_in_progress, protocols, protoObjs, servers, clients,
                        message_stack, field_values>>
    ELSE IF protocol_name \in DOMAIN protocols
    THEN /\ last' = Outcome("start_protocol_description", protocol_name, "Exception")
         /\ UNCHANGED <<protocol_in_progress, protocols, protoObjs, servers, clients,
                        message_stack, field_values>>
    ELSE /\ protoObjs' = Append(protoObjs, Protocol(protocol_name))
         /\ protocol_in_progress' = Len(protoObjs) + 1
         /\ last' = Outcome("start_protocol_description", protocol_name, "ok")
         /\ UNCHANGED <<protocols, servers, clients, message_stack, field_values>>

\* end_protocol_description that leaves the protocol in progress
end_protocol_description_open ==
    IF protocol_in_progress = NoId
    THEN /\ last' = Outcome("end_protocol_description", None, "AttributeError")
         /\ UNCHANGED <<protocol_in_progress, protocols, protoObjs, servers, clients,
                        message_stack, field_values>>
    ELSE /\ protocols' = Update(protocols,
                [k \in {protoObjs[protocol_in_progress].name} |-> protocol_in_progress])
         /\ last' = Outcome("end_protocol_description", None, "ok")
         /\ UNCHANGED <<protocol_in_progress, protoObjs, servers, clients, message_stack,
                        field_values>>

end_protocol_description ==
    IF protocol_in_progress = NoId
    THEN /\ last' = Outcome("end_protocol_description", None, "AttributeError")
         /\ UNCHANGED <<protocol_in_progress, protocols, protoObjs, servers, clients,
                        message_stack, field_values>>
    ELSE /\ protocols' = Update(protocols,
                [k \in {protoObjs[protocol_in_progress].name} |-> protocol_in_progress])
         /\ protocol_in_progress' = NoId
         /\ last' = Outcome("end_protocol_description", None, "ok")
         /\ UNCHANGED <<protoObjs, servers, clients, message_stack, field_values>>

\* reset_rammbock that keeps the registered protocols
reset_rammbock_keeping_protocols ==
    /\ protocol_in_progress' = NoId
    /\ servers' = {}
    /\ clients' = {}
    /\ message_stack' = <<>>
    /\ field_values' = NoneDict
    /\ last' = [Outcome("reset_rammbock", None, "ok") EXCEPT !.closed = servers \cup clients]
    /\ UNCHANGED <<protocols, protoObjs>>

reset_rammbock ==
    /\ protocol_in_progress' = NoId
    /\ protocols' = EmptyDict
    /\ protoObjs' = <<>>
    /\ servers' = {}
    /\ clients' = {}
    /\ message_stack' = <<>>
    /\ field_values' = NoneDict
    /\ last' = [Outcome("reset_rammbock", None, "ok") EXCEPT !.closed = servers \cup clients]

\* ------------------------------------------------------------------ nodes
\* _NamedCache.get: the named node, or the current one when no name is given
NodeFound(nodes, configs) ==
    IF "name" \in DOMAIN configs THEN Word(configs["name"]) \in nodes
    ELSE nodes # {}

_get_protocol_ok(protocol) == protocol = None \/ protocol \in DOMAIN protocols
_get_protocol(protocol) == IF protocol = None THEN NoId ELSE protocols[protocol]

_start_client(name, protocol) ==
    IF ~_get_protocol_ok(protocol)
    THEN /\ last' = Outcome("start_client", name, "KeyError")
         /\ UNCHANGED <<protocol_in_progress, protocols, protoObjs, servers, clients,
                        message_stack, field_values>>
    ELSE /\ clients' = clients \cup {name}
         /\ last' = Outcome("start_client", name, "ok")
         /\ UNCHANGED <<protocol_in_progress, protocols, protoObjs, servers,
                        message_stack, field_values>>

_start_server(name, protocol) ==
    IF ~_get_protocol_ok(protocol)
    THEN /\ last' = Outcome("start_server", name, "KeyError")
         /\ UNCHANGED <<protocol_in_progress, protocols, protoObjs, servers, clients,
                        message_stack, field_values>>
    ELSE /\ servers' = servers \cup {name}
         /\ last' = Outcome("start_server", name, "ok")
         /\ UNCHANGED <<protocol_in_progress, protocols, protoObjs, clients,
                        message_stack, field_values>>

\* ------------------------------------------------------------------ messages
\* new_message that ignores the protocol in progress
new_message_unchecked(message_name, protocol, parameters) ==
    IF ~_get_protocol_ok(protocol)
    THEN /\ last' = Outcome("new_message", message_name, "KeyError")
         /\ UNCHANGED <<protocol_in_progress, protocols, protoObjs, servers, clients,
                        message_stack, field_values>>
    ELSE IF ~Parsed[parameters].ok
    THEN /\ last' = Outcome("new_message", message_name, "Exception")
         /\ UNCHANGED <<protocol_in_progress, protocols, protoObjs, servers, clients,
                        message_stack, field_values>>
    ELSE /\ Cardinality(IdsOf(protoObjs)) + CountAll(protoObjs) < MaxSize
         /\ message_stack' = <<MessageTemplate(message_name, FreshId(IdsOf(protoObjs)),
                                               _get_protocol(protocol),
                                               Parsed[parameters].fields)>>
         /\ field_values' = Dict(EmptyDict)
         /\ last' = Outcome("new_message", message_name, "ok")
         /\ UNCHANGED <<protocol_in_progress, protocols, protoObjs, servers, clients>>

new_message(message_name, protocol, parameters) ==
    IF protocol_in_progress # NoId
    THEN /\ last' = Outcome("new_message", message_name, "Exception")
         /\ UNCHANGED <<protocol_in_progress, protocols, protoObjs, servers, clients,
                        message_stack, field_values>>
    ELSE IF ~_get_protocol_ok(protocol)
    THEN /\ last' = Outcome("new_message", message_name, "KeyError")
         /\ UNCHANGED <<protocol_in_progress, protocols, protoObjs, servers, clients,
                        message_stack, field_values>>
    ELSE IF ~Parsed[parameters].ok
    THEN /\ last' = Outcome("new_message", message_name, "Exception")
         /\ UNCHANGED <<protocol_in_progress, protocols, protoObjs, servers, clients,
                        message_stack, field_values>>
    ELSE /\ Cardinality(IdsOf(protoObjs)) + CountAll(protoObjs) < MaxSize
         /\ message_stack' = <<MessageTemplate(message_name, FreshId(IdsOf(protoObjs)),
                                               _get_protocol(protocol),
                                               Parsed[parameters].fields)>>
         /\ field_values' = Dict(EmptyDict)
         /\ last' = Outcome("new_message", message_name, "ok")
         /\ UNCHANGED <<protocol_in_progress, protocols, protoObjs, servers, clients>>

\* _get_message_template that asks for a non-empty stack only
_get_message_template_nonempty ==
    IF message_stack = <<>> THEN "IndexError" ELSE "ok"

\* _get_message_template: the exception it raises, "ok" when it returns the base
_get_message_template ==
    IF Len(message_stack) = 1 THEN "ok"
    ELSE IF message_stack = <<>> THEN "IndexError"
    ELSE "Exception"

\* The names a template's encode and validate know.
FieldNamesOf(template) == {template.fields[i].name : i \in 1..Len(template.fields)}

\* MessageTemplate.encode that takes values for names the template has not
Encode_lenient(template, message_fields) == "ok"

\* MessageTemplate.encode: the exception it raises, "ok" when it returns a message
Encode(template, message_fields) ==
    IF DOMAIN message_fields \subseteq FieldNamesOf(template) THEN "ok" ELSE "Exception"

\* _encode_message on what _get_parameters_with_defaults returned (d), the
\* template being t: the outcome of op
_encode_message(op, d, t) ==
    IF d.res # "ok" THEN Outcome(op, None, d.res)
    ELSE IF t # "ok" THEN [Outcome(op, None, t) EXCEPT !.consumed = TRUE, !.env = d.fields]
    ELSE [Outcome(op, None, Encode(message_stack[1], d.fields)) EXCEPT
             !.consumed = TRUE, !.env = d.fields, !.tmpl = message_stack[1].id]

Encoded(op, parameters) ==
    _encode_message(op, _get_parameters_with_defaults(parameters), _get_message_template)

\* self._field_values = {} when _populate_defaults has run
Consume(outcome) ==
    field_values' = IF outcome.consumed THEN Dict(EmptyDict) ELSE field_values

\* The outcome of a keyword called with the parameters, with the field values
\* _populate_defaults took and was given
Called(outcome, parameters) ==
    IF outcome.consumed
    THEN [outcome EXCEPT !.pending = field_values.d, !.given = Parsed[parameters].fields]
    ELSE outcome

get_message(parameters) ==
    /\ last' = Called(Encoded("get_message", parameters), parameters)
    /\ Consume(last')
    /\ UNCHANGED <<protocol_in_progress, protocols, protoObjs, servers, clients,
                   message_stack>>

\* _send_message: the callback looks the node up and sends msg._raw
\* callback(msg._raw, **configs) after _encode_message gave e
Callback(e, found) ==
    IF e.res # "ok" THEN e
    ELSE IF ~found THEN [e EXCEPT !.res = "Exception"]
    ELSE [e EXCEPT !.sent = TRUE]

_send_message(op, nodes, parameters) ==
    /\ last' = Called(Callback(Encoded(op, parameters),
                               NodeFound(nodes, Parsed[parameters].configs)), parameters)
    /\ Consume(last')
    /\ UNCHANGED <<protocol_in_progress, protocols, protoObjs, servers, clients,
                   message_stack>>

client_sends_message(parameters) == _send_message("client_sends_message", clients, parameters)

server_sends_message(parameters) == _send_message("server_sends_message", servers, parameters)

\* A received message, decoded: its fields' values.
Msgs == {[k \in {"f"} |-> <<"1">>]}
\* node.get_message: a message, or None when the transport times out
Received == Msgs \cup {NoneDict}

\* MessageTemplate.validate: the diagnostics, in the order of names
RECURSIVE Validate(_, _, _)
Validate(msg, message_fields, names) ==
    IF names = <<>> THEN <<>>
    ELSE LET n == Head(names)
             rest == Validate(msg, message_fields, Tail(names))
         IN IF n \notin DOMAIN message_fields THEN rest
            ELSE IF n \notin DOMAIN msg THEN <<"MissingField">> \o rest
            ELSE IF msg[n] # message_fields[n] THEN <<"ValueMismatch">> \o rest
            ELSE rest

ValidationOrder == <<"f", "g">>

\* _validate_message that raises nothing on a failed validation
_validate_message_quiet(msg, message_fields, t) == t

\* _validate_message, the template being t: the exception it raises
_validate_message(msg, message_fields, t) ==
    IF t # "ok" THEN t
    ELSE IF Validate(msg, message_fields, ValidationOrder) # <<>> THEN "AssertionError"
    ELSE "ok"

\* The outcome o of a call that ran _validate_message, with what validate
\* returned and what the AssertionError holds
Validation(o, msg, message_fields, t) ==
    IF t # "ok" THEN o
    ELSE [o EXCEPT !.validated = TRUE,
                   !.errors = Validate(msg, message_fields, ValidationOrder),
                   !.raised = IF o.res = "AssertionError"
                              THEN Head(Validate(msg, message_fields, ValidationOrder))
                              ELSE None]

\* _receive on what _get_parameters_with_defaults returned (d), found telling
\* whether nodes.get finds the node and t what _get_message_template does; then
\* the body of the with statement, which validates when validate is TRUE
Receive(op, d, found, t, received, validate) ==
    IF d.res # "ok" THEN Outcome(op, None, d.res)
    ELSE IF ~found
    THEN [Outcome(op, None, "Exception") EXCEPT !.consumed = TRUE, !.env = d.fields]
    ELSE IF t # "ok"
    THEN [Outcome(op, None, t) EXCEPT !.consumed = TRUE, !.env = d.fields]
    ELSE IF received = NoneDict
    THEN [Outcome(op, None, "Exception") EXCEPT
             !.consumed = TRUE, !.env = d.fields, !.read = TRUE,
             !.tmpl = message_stack[1].id]
    ELSE IF validate
    THEN Validation([Outcome(op, None, _validate_message(received, d.fields, t)) EXCEPT
                        !.consumed = TRUE, !.env = d.fields, !.read = TRUE,
                        !.tmpl = message_stack[1].id],
                    received, d.fields, t)
    ELSE [Outcome(op, None, "ok") EXCEPT
             !.consumed = TRUE, !.env = d.fields, !.read = TRUE,
             !.tmpl = message_stack[1].id]

ReceiveFrom(op, nodes, d, received, validate) ==
    Receive(op, d, NodeFound(nodes, d.configs), _get_message_template, received, validate)

_receive(op, nodes, parameters, received, validate) ==
    /\ last' = Called(ReceiveFrom(op, nodes, _get_parameters_with_defaults(parameters),
                                  received, validate), parameters)
    /\ Consume(last')
    /\ UNCHANGED <<protocol_in_progress, protocols, protoObjs, servers, clients,
                   message_stack>>

client_receives_message(parameters, received) ==
    _receive("client_receives_message", clients, parameters, received, TRUE)

client_receives_without_validation(parameters, received) ==
    _receive("client_receives_without_validation", clients, parameters, received, FALSE)

server_receives_message(parameters, received) ==
    _receive("server_receives_message", servers, parameters, received, TRUE)

server_receives_without_validation(parameters, received) ==
    _receive("server_receives_without_validation", servers, parameters, received, FALSE)

Validated(op, msg, d, t) ==
    IF d.res # "ok" THEN Outcome(op, None, d.res)
    ELSE Validation([Outcome(op, None, _validate_message(msg, d.fields, t)) EXCEPT
                        !.consumed = TRUE, !.env = d.fields,
                        !.tmpl = IF t = "ok" THEN message_stack[1].id ELSE NoId],
                    msg, d.fields, t)

validate_message(msg, parameters) ==
    /\ last' = Called(Validated("validate_message", msg,
                                _get_parameters_with_defaults(parameters),
                                _get_message_template), parameters)
    /\ Consume(last')
    /\ UNCHANGED <<protocol_in_progress, protocols, protoObjs, servers, clients,
                   message_stack>>

value(name, v) ==
    IF field_values.none
    THEN /\ last' = Outcome("value", name, "TypeError")
         /\ UNCHANGED <<protocol_in_progress, protocols, protoObjs, servers, clients,
                        message_stack, field_values>>
    ELSE /\ field_values' = Dict(Update(field_values.d, [k \in {name} |-> v]))
         /\ last' = Outcome("value", name, "ok")
         /\ UNCHANGED <<protocol_in_progress, protocols, protoObjs, servers, clients,
                        message_stack>>

\* ------------------------------------------------------------------ fields
IsPDU(field) == field.type = "pdu"

\* Protocol.add that accepts a PDU whatever field its length names
ProtocolAccepts_unresolved(protocol, field) ==
    IsPDU(field) => \A i \in 1..Len(protocol.fields) : ~IsPDU(protocol.fields[i])

\* Protocol.add: whether it accepts the field
ProtocolAccepts(protocol, field) ==
    IsPDU(field) =>
        /\ \A i \in 1..Len(protocol.fields) : ~IsPDU(protocol.fields[i])
        /\ \E i \in 1..Len(protocol.fields) :
              /\ protocol.fields[i].name = field.length.field
              /\ protocol.fields[i].length.static

\* add of a MessageTemplate or a container template
ContainerAdd(container, field) == [container EXCEPT !.fields = Append(@, field)]

\* _add_field that prefers the message stack to the protocol in progress
_add_field_stack_first(op, stack, field) ==
    IF stack # <<>>
    THEN /\ (field.id # NoId \/ Room)
         /\ protoObjs' = protoObjs
         /\ message_stack' = [stack EXCEPT ![Len(stack)] = ContainerAdd(@, field)]
         /\ last' = Outcome(op, None, "ok")
    ELSE IF protocol_in_progress = NoId
    THEN /\ protoObjs' = protoObjs
         /\ message_stack' = stack
         /\ last' = Outcome(op, None, "IndexError")
    ELSE IF ProtocolAccepts(protoObjs[protocol_in_progress], field)
    THEN /\ (field.id # NoId \/ Room)
         /\ protoObjs' = [protoObjs EXCEPT
                             ![protocol_in_progress].fields = Append(@, field)]
         /\ message_stack' = stack
         /\ last' = Outcome(op, None, "ok")
    ELSE /\ protoObjs' = protoObjs
         /\ message_stack' = stack
         /\ last' = Outcome(op, None, "Exception")

\* _add_field, applied to the message stack `stack` the caller has left
_add_field(op, stack, field) ==
    IF protocol_in_progress # NoId
    THEN IF ProtocolAccepts(protoObjs[protocol_in_progress], field)
         THEN /\ (field.id # NoId \/ Room)
              /\ protoObjs' = [protoObjs EXCEPT
                                  ![protocol_in_progress].fields = Append(@, field)]
              /\ message_stack' = stack
              /\ last' = Outcome(op, None, "ok")
         ELSE /\ protoObjs' = protoObjs
              /\ message_stack' = stack
              /\ last' = Outcome(op, None, "Exception")
    ELSE IF stack = <<>>
    THEN /\ protoObjs' = protoObjs
         /\ message_stack' = stack
         /\ last' = Outcome(op, None, "IndexError")
    ELSE /\ (field.id # NoId \/ Room)
         /\ protoObjs' = protoObjs
         /\ message_stack' = [stack EXCEPT ![Len(stack)] = ContainerAdd(@, field)]
         /\ last' = Outcome(op, None, "ok")

\* uint that takes the pending field values as struct does
uint_with_defaults(a) ==
    /\ _add_field("uint", message_stack, UInt(a))
    /\ field_values' = IF field_values.none THEN field_values ELSE Dict(EmptyDict)
    /\ UNCHANGED <<protocol_in_progress, protocols, servers, clients>>

uint(a) ==
    /\ _add_field("uint", message_stack, UInt(a))
    /\ UNCHANGED <<protocol_in_progress, protocols, servers, clients, field_values>>

chars(a) ==
    /\ _add_field("chars", message_stack, Char(a))
    /\ UNCHANGED <<protocol_in_progress, protocols, servers, clients, field_values>>

pdu(a) ==
    /\ _add_field("pdu", message_stack, PDU(a))
    /\ UNCHANGED <<protocol_in_progress, protocols, servers, clients, field_values>>

\* ------------------------------------------------------------------ containers
\* self._message_stack.append(template), the template parented to _current_container
Open(op, type, name, params) ==
    IF message_stack = <<>>
    THEN /\ last' = Outcome(op, name, "IndexError")
         /\ UNCHANGED message_stack
    ELSE /\ Room
         /\ message_stack' = Append(message_stack,
                Container(type, name, FreshId(LiveIds), message_stack[Len(message_stack)].id,
                          NoId, params))
         /\ last' = Outcome(op, name, "ok")

\* struct on what _get_parameters_with_defaults returned (d)
OpenStruct(name, d) ==
    /\ IF d.res # "ok"
       THEN /\ last' = Outcome("struct", name, d.res)
            /\ UNCHANGED message_stack
       ELSE Open("struct", "struct", name, d.fields)
    /\ Consume(d)

struct(type, name, parameters) ==
    /\ OpenStruct(name, _get_parameters_with_defaults(parameters))
    /\ UNCHANGED <<protocol_in_progress, protocols, protoObjs, servers, clients>>

new_list(size, name) ==
    /\ Open("new_list", "list", name, EmptyDict)
    /\ UNCHANGED <<protocol_in_progress, protocols, protoObjs, servers, clients, field_values>>

new_binary_container(name) ==
    /\ Open("new_binary_container", "binary_container", name, EmptyDict)
    /\ UNCHANGED <<protocol_in_progress, protocols, protoObjs, servers, clients, field_values>>

union(type, name) ==
    /\ Open("union", "union", name, EmptyDict)
    /\ UNCHANGED <<protocol_in_progress, protocols, protoObjs, servers, clients, field_values>>

\* list.pop
Pop(stack) == SubSeq(stack, 1, Len(stack) - 1)
Top(stack) == stack[Len(stack)]

\* self._message_stack.pop() followed by _add_field of what it returned
Close(op) ==
    IF message_stack = <<>>
    THEN /\ last' = Outcome(op, None, "IndexError")
         /\ UNCHANGED <<message_stack, protoObjs>>
    ELSE _add_field(op, Pop(message_stack), Top(message_stack))

end_struct ==
    /\ Close("end_struct")
    /\ UNCHANGED <<protocol_in_progress, protocols, servers, clients, field_values>>

end_list ==
    /\ Close("end_list")
    /\ UNCHANGED <<protocol_in_progress, protocols, servers, clients, field_values>>

end_union ==
    /\ Close("end_union")
    /\ UNCHANGED <<protocol_in_progress, protocols, servers, clients, field_values>>

\* The sum of the bit widths of a binary container's fields
RECURSIVE BitLength(_)
BitLength(fields) ==
    IF fields = <<>> THEN 0 ELSE Head(fields).length.value + BitLength(Tail(fields))

\* BinaryContainerTemplate.verify: the exception it raises; the other
\* templates have no verify
Verify(container) ==
    IF container.type # "binary_container" THEN "AttributeError"
    ELSE IF BitLength(container.fields) % 8 # 0 THEN "Exception"
    ELSE "ok"

end_binary_container ==
    /\ IF message_stack = <<>>
       THEN /\ last' = Outcome("end_binary_container", None, "IndexError")
            /\ UNCHANGED <<message_stack, protoObjs>>
       ELSE IF Verify(Top(message_stack)) # "ok"
       THEN /\ last' = Outcome("end_binary_container", None, Verify(Top(message_stack)))
            /\ message_stack' = Pop(message_stack)
            /\ UNCHANGED protoObjs
       ELSE _add_field("end_binary_container", Pop(message_stack), Top(message_stack))
    /\ UNCHANGED <<protocol_in_progress, protocols, servers, clients, field_values>>

\* ------------------------------------------------------------------ specifications
ProtocolStep ==
    \/ \E n \in ProtocolNames : start_protocol_description(n)
    \/ end_protocol_description

ResetStep == reset_rammbock

NodeStep ==
    \/ \E n \in ClientNames, p \in {None, "p"} : _start_client(n, p)
    \/ \E n \in ServerNames, p \in {None, "p"} : _start_server(n, p)

MessageStep ==
    \/ \E ps \in NewMessageParams : new_message("m", "p", ps)
    \/ \E n \in ValueNames, v \in ValueValues : value(n, v)
    \/ \E ps \in ExpectLists : get_message(ps)

TransportStep ==
    \/ \E ps \in ParamLists : client_sends_message(ps)
    \/ \E ps \in ParamLists : server_sends_message(ps)
    \/ \E ps \in ParamLists, r \in Received : client_receives_message(ps, r)
    \/ \E ps \in ParamLists, r \in Received : client_receives_without_validation(ps, r)
    \/ \E ps \in ParamLists, r \in Received : server_receives_message(ps, r)
    \/ \E ps \in ParamLists, r \in Received : server_receives_without_validation(ps, r)
    \/ \E ps \in ExpectLists, m \in Msgs : validate_message(m, ps)

FieldStep ==
    \/ \E a \in UIntArgs : uint(a)
    \/ \E a \in CharArgs : chars(a)
    \/ \E a \in PduArgs : pdu(a)

StructStep ==
    \/ \E ps \in StructParams : struct("t", "s", ps)
    \/ end_struct

ContainerStep ==
    \/ new_list("1", "l")
    \/ end_list
    \/ new_binary_container("b")
    \/ end_binary_container
    \/ union("t", "u")
    \/ end_union

\* Every keyword of the session.
Next ==
    \/ ProtocolStep
    \/ ResetStep
    \/ NodeStep
    \/ MessageStep
    \/ TransportStep
    \/ FieldStep
    \/ StructStep
    \/ ContainerStep

Spec == Init /\ [][Next]_vars

\* The session while it defines protocols and messages: no node is started and
\* nothing is sent or received. The keywords left out change self._clients,
\* self._servers and, as get_message does, self._field_values only.
BuilderNext ==
    \/ ProtocolStep
    \/ ResetStep
    \/ MessageStep
    \/ FieldStep
    \/ StructStep
    \/ ContainerStep

SpecBuilder == Init /\ [][BuilderNext]_vars

\* The session with every keyword and one protocol name.
SessionNext ==
    \/ start_protocol_description("p")
    \/ end_protocol_description
    \/ ResetStep
    \/ NodeStep
    \/ MessageStep
    \/ TransportStep
    \/ FieldStep
    \/ StructStep
    \/ ContainerStep

SpecSession == Init /\ [][SessionNext]_vars

\* ------------------------------------------------------------------ the templates alone
\* A Protocol and a MessageTemplate bound to it, used as the unit tests use
\* them (utest/test_protocol.py): protoObjs[1] is the Protocol, message_stack[1]
\* the MessageTemplate; `last` holds the result of the last call.
Result(op, arg, res, out) == [op |-> op, arg |-> arg, res |-> res, out |-> out]

\* A uint with no default value
NoDefault == -1

\* UInt(length, name, default_value) added to the Protocol
HeaderUInts ==
    {[length |-> 2, name |-> "msgId", value |-> 5],
     [length |-> 2, name |-> "length", value |-> NoDefault],
     [length |-> 1, name |-> "checksum", value |-> 0]}
\* PDU('length') and PDU('length-4')
PduExprs == {[field |-> "length", subtractor |-> 0], [field |-> "length", subtractor |-> 4]}

TemplatesInit ==
    /\ protocol_in_progress = NoId
    /\ protocols = EmptyDict
    /\ protoObjs = <<Protocol("Test")>>
    /\ servers = {}
    /\ clients = {}
    /\ message_stack = <<MessageTemplate("FooRequest", 1, 1, EmptyDict)>>
    /\ field_values = NoneDict
    /\ last = Result("init", None, "ok", 0)

\* Protocol.add
Protocol_add(field) ==
    /\ \A i \in 1..Len(protoObjs[1].fields) :
          IsPDU(field) \/ protoObjs[1].fields[i].name # field.name
    /\ IF ProtocolAccepts(protoObjs[1], field)
       THEN /\ protoObjs' = [protoObjs EXCEPT ![1].fields = Append(@, field)]
            /\ last' = Result("Protocol.add", field.name, "ok", 0)
       ELSE /\ protoObjs' = protoObjs
            /\ last' = Result("Protocol.add", field.name, "Exception", 0)
    /\ UNCHANGED <<protocol_in_progress, protocols, servers, clients, message_stack,
                   field_values>>

\* Protocol.header_length that counts the fields after the PDU as well
RECURSIVE header_length_all(_)
header_length_all(fields) ==
    IF fields = <<>> THEN 0
    ELSE (IF Head(fields).length.static THEN Head(fields).length.value ELSE 0)
         + header_length_all(Tail(fields))

\* Protocol.header_length: the widths of the fields, up to the PDU
RECURSIVE header_length(_)
header_length(fields) ==
    IF fields = <<>> THEN 0
    ELSE IF ~Head(fields).length.static THEN 0
    ELSE Head(fields).length.value + header_length(Tail(fields))

Protocol_header_length ==
    /\ last' = Result("Protocol.header_length", None, "ok", header_length(protoObjs[1].fields))
    /\ UNCHANGED <<protocol_in_progress, protocols, protoObjs, servers, clients,
                   message_stack, field_values>>

\* UInt(length, name, default_value) added to the MessageTemplate
PayloadUInts ==
    {[length |-> 2, name |-> "field_1", value |-> 1],
     [length |-> 2, name |-> "field_2", value |-> 2]}

\* MessageTemplate.add
MessageTemplate_add(field) ==
    /\ field.name \notin FieldNamesOf(message_stack[1])
    /\ message_stack' = [message_stack EXCEPT ![1] = ContainerAdd(@, field)]
    /\ last' = Result("MessageTemplate.add", field.name, "ok", 0)
    /\ UNCHANGED <<protocol_in_progress, protocols, protoObjs, servers, clients,
                   field_values>>

\* Length.solve_value that adds the subtractor
solve_value_added(length, parameter) == parameter + length.subtractor

\* Length.solve_value
solve_value(length, parameter) == parameter - length.subtractor

\* Length.solve_parameter
solve_parameter(length, v) == v + length.subtractor

\* The bytes of an unsigned big-endian integer of the width
ToBytes(int, width) == [i \in 1..width |-> (int \div 256 ^ (width - i)) % 256]

\* A leaf of an EncodedMessage
Leaf(name, int, width) == [name |-> name, int |-> int, bytes |-> ToBytes(int, width)]

RECURSIVE Raw(_)
Raw(leaves) == IF leaves = <<>> THEN <<>> ELSE Head(leaves).bytes \o Raw(Tail(leaves))

\* The value of a field: the one given for it, else its default
ValueOf(field, env) == IF field.name \in DOMAIN env THEN env[field.name] ELSE field.value

\* The payload of the message
PayloadOf(template, message_fields) ==
    [i \in 1..Len(template.fields) |->
        Leaf(template.fields[i].name, ValueOf(template.fields[i], message_fields),
             template.fields[i].length.value)]

\* The PDU of a protocol that has one
PduOf(protocol) == protocol.fields[CHOOSE i \in 1..Len(protocol.fields) : IsPDU(protocol.fields[i])]

\* The value of a header field where a value given for the length field is used
HeaderValue_overridden(field, length, header_fields, payload_bytes) ==
    IF field.name \in DOMAIN header_fields THEN header_fields[field.name]
    ELSE IF field.name = length.field THEN solve_parameter(length, payload_bytes)
    ELSE field.value

\* The value of a header field, length being the length of the PDU
HeaderValue(field, length, header_fields, payload_bytes) ==
    IF field.name = length.field THEN solve_parameter(length, payload_bytes)
    ELSE ValueOf(field, header_fields)

\* The header of the message: the fields of the protocol but the PDU
HeaderOf(protocol, header_fields, payload_bytes) ==
    LET fields == SelectSeq(protocol.fields, LAMBDA f : ~IsPDU(f))
    IN [i \in 1..Len(fields) |->
           Leaf(fields[i].name,
                HeaderValue(fields[i], PduOf(protocol).length, header_fields, payload_bytes),
                fields[i].length.value)]

\* What encode returns when it raises
NoMessage == [produced |-> FALSE, header |-> <<>>, fields |-> <<>>, raw |-> <<>>]

\* The EncodedMessage
EncodedMessage(template, protocol, message_fields, header_fields) ==
    LET payload == PayloadOf(template, message_fields)
        header == HeaderOf(protocol, header_fields, Len(Raw(payload)))
    IN [produced |-> TRUE, header |-> header, fields |-> payload,
        raw |-> Raw(header) \o Raw(payload)]

\* message_fields and header_fields given to encode
MessageFields ==
    {EmptyDict, [k \in {"field_1"} |-> 1024], [k \in {"field_1", "field_2"} |-> 111],
     [k \in {"unknown"} |-> 111], [k \in {"field_1", "unknown"} |-> 42]}
HeaderFields == {EmptyDict, [k \in {"length"} |-> 99], [k \in {"msgId"} |-> 7]}

\* MessageTemplate.encode, of a template whose protocol ends with its PDU
MessageTemplate_encode(message_fields, header_fields) ==
    /\ protoObjs[1].fields # <<>>
    /\ IsPDU(Top(protoObjs[1].fields))
    /\ last' = Result("MessageTemplate.encode",
                      [message_fields |-> message_fields, header_fields |-> header_fields],
                      Encode(message_stack[1], message_fields),
                      IF Encode(message_stack[1], message_fields) = "ok"
                      THEN EncodedMessage(message_stack[1], protoObjs[1], message_fields,
                                          header_fields)
                      ELSE NoMessage)
    /\ UNCHANGED <<protocol_in_progress, protocols, protoObjs, servers, clients,
                   message_stack, field_values>>

\* Length('length'), Length('length-4'), Length('length-8') and the numbers
\* given to them
Lengths == {DynamicLength([field |-> "length", subtractor |-> s]) : s \in {0, 4, 8}}
Numbers == {0, 1, 10}
\* A number given, or the number the other operation has just returned
NumbersAfter(op) ==
    Numbers \cup (IF last.op = op /\ last.arg.n \in Numbers THEN {last.out} ELSE {})

Length_solve_value(length, parameter) ==
    /\ last' = Result("Length.solve_value", [length |-> length, n |-> parameter], "ok",
                      solve_value(length, parameter))
    /\ UNCHANGED <<protocol_in_progress, protocols, protoObjs, servers, clients,
                   message_stack, field_values>>

Length_solve_parameter(length, v) ==
    /\ last' = Result("Length.solve_parameter", [length |-> length, n |-> v], "ok",
                      solve_parameter(length, v))
    /\ UNCHANGED <<protocol_in_progress, protocols, protoObjs, servers, clients,
                   message_stack, field_values>>

ProtocolCall ==
    \/ \E a \in HeaderUInts : Protocol_add(UInt(a))
    \/ \E a \in PduExprs : Protocol_add(PDU(a))
    \/ Protocol_header_length

MessageTemplateCall ==
    \/ \E a \in PayloadUInts : MessageTemplate_add(UInt(a))
    \/ \E m \in MessageFields, h \in HeaderFields : MessageTemplate_encode(m, h)

LengthCall ==
    \/ \E l \in Lengths, n \in NumbersAfter("Length.solve_parameter") : Length_solve_value(l, n)
    \/ \E l \in Lengths, n \in NumbersAfter("Length.solve_value") : Length_solve_parameter(l, n)

TemplatesNext ==
    \/ ProtocolCall
    \/ MessageTemplateCall
    \/ LengthCall

SpecTemplates == TemplatesInit /\ [][TemplatesNext]_vars

\* ------------------------------------------------------------------ the parameters alone
MaxParams == 2

\* Parameters as the keywords get them: ':' , '=' and ' ' are lexemes of their own
Tokens ==
    {<<"x">>,
     <<"f", ":", "2">>,
     <<"name", "=", "c">>,
     <<"f", ":", "a", "=", "b">>,
     <<"name", "=", "a", ":", "b">>,
     <<"header", ":", "h", ":", "1">>,
     <<"header", ":", "x">>,
     <<"header", "=", "h", ":", "1">>,
     <<"header", ":", "h", ":", "1", "=", "2">>,
     <<" ", "g", " ", ":", " ", "3">>}

TokenLists == UNION {[1..n -> Tokens] : n \in 0..MaxParams}

\* What _parse_parameters returns, nothing when it raises
NoParameters == [ok |-> FALSE, configs |-> EmptyDict, fields |-> EmptyDict, headers |-> EmptyDict]

\* The parameters a keyword is about to be called with
ParametersInit ==
    /\ protocol_in_progress = NoId
    /\ protocols = EmptyDict
    /\ protoObjs = <<>>
    /\ servers = {}
    /\ clients = {}
    /\ message_stack = <<>>
    /\ field_values = NoneDict
    /\ last \in {Result("parameters", parameters, "ok", NoParameters) : parameters \in TokenLists}

\* A call of _parse_parameters on them
parse_parameters ==
    /\ last.op = "parameters"
    /\ last' = IF _parse_parameters(last.arg).ok
               THEN Result("_parse_parameters", last.arg, "ok", _parse_parameters(last.arg))
               ELSE Result("_parse_parameters", last.arg, "Exception", NoParameters)
    /\ UNCHANGED <<protocol_in_progress, protocols, protoObjs, servers, clients,
                   message_stack, field_values>>

ParametersNext == parse_parameters

SpecParameters == ParametersInit /\ [][ParametersNext]_vars

\* ------------------------------------------------------------------ properties
\* What a keyword leaves alone besides the attributes named in its property
NodesUnchanged == UNCHANGED <<servers, clients>>

\* C1: start_protocol_description(name) fails and changes nothing when a
\* protocol is in progress or when name is already registered; otherwise it
\* makes a new Protocol named name, with no fields, the protocol in progress and
\* leaves the registry, the message stack and the pending field values as they
\* were.
C1_StartProtocolDescription ==
    [][\A n \in ProtocolNames :
          (last'.op = "start_protocol_description" /\ last'.arg = n) =>
              IF protocol_in_progress # NoId \/ n \in DOMAIN protocols
              THEN /\ last'.res # "ok"
                   /\ UNCHANGED <<protocol_in_progress, protocols, protoObjs,
                                  message_stack, field_values>>
                   /\ NodesUnchanged
              ELSE /\ last'.res = "ok"
                   /\ protocol_in_progress' \in (1..Len(protoObjs')) \ (1..Len(protoObjs))
                   /\ protoObjs'[protocol_in_progress'].name = n
                   /\ protoObjs'[protocol_in_progress'].fields = <<>>
                   /\ SubSeq(protoObjs', 1, Len(protoObjs)) = protoObjs
                   /\ UNCHANGED <<protocols, message_stack, field_values>>
                   /\ NodesUnchanged]_vars

\* start_protocol_description of a registered name has failed, a message
\* being under construction with a pending field value
C1_Witness ==
    /\ last.op = "start_protocol_description"
    /\ last.res = "Exception"
    /\ protocol_in_progress = NoId
    /\ last.arg \in DOMAIN protocols
    /\ message_stack # <<>>
    /\ DOMAIN field_values.d # {}

\* C2: end_protocol_description() called while a protocol P is in progress
\* stores P in the registry under P's name and leaves no protocol in progress;
\* every other registry entry, the message stack and the pending field values
\* are unchanged. The protocol in progress is a single reference, to a Protocol
\* whose name is not yet in the registry.
C2_EndProtocolDescription ==
    [][/\ (last'.op = "end_protocol_description" /\ protocol_in_progress # NoId) =>
             /\ last'.res = "ok"
             /\ protocol_in_progress' = NoId
             /\ DOMAIN protocols' = DOMAIN protocols \cup {protoObjs[protocol_in_progress].name}
             /\ protocols'[protoObjs[protocol_in_progress].name] = protocol_in_progress
             /\ \A n \in DOMAIN protocols :
                    n # protoObjs[protocol_in_progress].name => protocols'[n] = protocols[n]
             /\ UNCHANGED <<protoObjs, message_stack, field_values>>
             /\ NodesUnchanged
       /\ protocol_in_progress' \in {NoId} \cup (1..Len(protoObjs'))
       /\ protocol_in_progress' # NoId =>
             protoObjs'[protocol_in_progress'].name \notin DOMAIN protocols']_vars

\* end_protocol_description has registered a second protocol, one with a
\* field, a message being under construction
C2_Witness ==
    /\ last.op = "end_protocol_description"
    /\ last.res = "ok"
    /\ Cardinality(DOMAIN protocols) = 2
    /\ \E n \in DOMAIN protocols : protoObjs[protocols[n]].fields # <<>>
    /\ message_stack # <<>>

\* C3: new_message(name, protocol, ...) fails while a protocol is in progress
\* and leaves the message stack and the pending field values unchanged;
\* otherwise, the protocol being registered and the parameters well formed, the
\* message stack holds exactly one element, a new MessageTemplate with no
\* fields bound to the registered protocol, and the pending field values are an
\* empty dict.
C3_NewMessage ==
    [][\A ps \in NewMessageParams :
          new_message("m", "p", ps) =>
              /\ last'.op = "new_message"
              /\ IF protocol_in_progress # NoId
                 THEN /\ last'.res # "ok"
                      /\ UNCHANGED <<message_stack, field_values>>
                 ELSE IF "p" \in DOMAIN protocols /\ Parsed[ps].ok
                 THEN /\ last'.res = "ok"
                      /\ Len(message_stack') = 1
                      /\ message_stack'[1].type = "message"
                      /\ message_stack'[1].name = "m"
                      /\ message_stack'[1].fields = <<>>
                      /\ message_stack'[1].protocol = protocols["p"]
                      /\ message_stack'[1].id \notin IdsOf(protoObjs)
                      /\ field_values' = Dict(EmptyDict)
                 ELSE /\ last'.res # "ok"
                      /\ UNCHANGED <<message_stack, field_values>>
              /\ UNCHANGED <<protocol_in_progress, protocols, protoObjs>>
              /\ NodesUnchanged]_vars

\* new_message has failed under a protocol in progress, an earlier message
\* with a pending field value being on the stack
C3_Witness ==
    /\ last.op = "new_message"
    /\ last.res = "Exception"
    /\ protocol_in_progress # NoId
    /\ message_stack # <<>>
    /\ DOMAIN field_values.d # {}

AddOps == {"uint", "chars", "pdu"}

EncodeOps ==
    {"get_message", "client_sends_message", "server_sends_message",
     "client_receives_message", "client_receives_without_validation",
     "server_receives_message", "server_receives_without_validation",
     "validate_message"}

\* C5: get_message, the send keywords, the receive keywords and
\* validate_message need a message stack of depth exactly 1: at any other
\* depth the keyword fails, no template encodes or validates and nothing is
\* sent on or read from the transport; whenever a template is used (and
\* whenever the keyword succeeds) the depth is 1 and the template is the base
\* of the stack, the MessageTemplate. The keyword leaves the stack as it was.
C5_DepthOne ==
    [][last'.op \in EncodeOps =>
          /\ Len(message_stack) # 1 =>
                /\ last'.res # "ok"
                /\ last'.tmpl = NoId
                /\ ~last'.sent
                /\ ~last'.read
          /\ (last'.res = "ok" \/ last'.tmpl # NoId \/ last'.sent \/ last'.read) =>
                /\ Len(message_stack) = 1
                /\ last'.tmpl = message_stack[1].id
                /\ message_stack[1].type = "message"
          /\ UNCHANGED message_stack]_vars

\* client_sends_message has failed on a stack of depth 2, a client being
\* there to send with
C5_Witness ==
    /\ last.op = "client_sends_message"
    /\ last.res = "Exception"
    /\ last.consumed
    /\ Len(message_stack) = 2
    /\ clients # {}

\* A step of a keyword that encodes, receives or validates, called with ps
EncodeStep(ps) ==
    CASE last'.op = "get_message" -> get_message(ps)
      [] last'.op = "client_sends_message" -> client_sends_message(ps)
      [] last'.op = "server_sends_message" -> server_sends_message(ps)
      [] last'.op = "client_receives_message" ->
            \E r \in Received : client_receives_message(ps, r)
      [] last'.op = "client_receives_without_validation" ->
            \E r \in Received : client_receives_without_validation(ps, r)
      [] last'.op = "server_receives_message" ->
            \E r \in Received : server_receives_message(ps, r)
      [] last'.op = "server_receives_without_validation" ->
            \E r \in Received : server_receives_without_validation(ps, r)
      [] last'.op = "validate_message" -> \E m \in Msgs : validate_message(m, ps)
      [] OTHER -> FALSE

\* Every pending field value is still pending after the step
PendingKept ==
    /\ field_values'.none = field_values.none
    /\ \A k \in DOMAIN field_values.d :
          k \in DOMAIN field_values'.d /\ field_values'.d[k] = field_values.d[k]

\* C6 as stated: the field values recorded by value stay pending until the
\* first get_message, send, receive or validate_message (new_message and
\* reset_rammbock apart, which start afresh); that keyword is handed every one
\* of them and leaves none pending.
C6_ConsumedByEncodeOnly ==
    [][/\ \A ps \in ExpectLists :
             (~field_values.none /\ Parsed[ps].ok /\ EncodeStep(ps)) =>
                 /\ last'.env = Update(field_values.d, Parsed[ps].fields)
                 /\ field_values' = Dict(EmptyDict)
       /\ last'.op \notin EncodeOps \cup {"new_message", "reset_rammbock"} =>
             PendingKept]_vars

\* C6 as amended: the field values recorded by value are consumed once, by the
\* first get_message, send, receive or validate_message or struct after them
\* whose parameters are well formed. That keyword is handed every one of them,
\* a parameter of the same name taking the place of the recorded value (struct
\* hands them to the struct it opens), and leaves none pending, so that the
\* next such keyword is handed its own parameters only. Called with a
\* malformed parameter these keywords leave them pending (an encode step that
\* has not consumed them is no call with well-formed parameters), and so does
\* every other keyword but new_message and reset_rammbock.
C6_ConsumedOnce ==
    [][/\ (~field_values.none /\ last'.op \in EncodeOps) =>
             IF last'.consumed
             THEN /\ field_values' = Dict(EmptyDict)
                  /\ \E ps \in ExpectLists :
                        /\ Parsed[ps].ok
                        /\ last'.env = Update(field_values.d, Parsed[ps].fields)
                        /\ \A k \in DOMAIN field_values.d :
                              /\ k \in DOMAIN last'.env
                              /\ k \notin DOMAIN Parsed[ps].fields =>
                                    last'.env[k] = field_values.d[k]
             ELSE /\ last'.res # "ok"
                  /\ PendingKept
                  /\ \A ps \in ExpectLists : Parsed[ps].ok => ~EncodeStep(ps)
       /\ \A ps \in StructParams :
             (~field_values.none /\ last'.op = "struct" /\ struct("t", "s", ps)) =>
                 IF Parsed[ps].ok
                 THEN /\ field_values' = Dict(EmptyDict)
                      /\ last'.res = "ok" =>
                            Top(message_stack').params
                                = Update(field_values.d, Parsed[ps].fields)
                 ELSE /\ last'.res # "ok"
                      /\ PendingKept
       /\ last'.op \notin EncodeOps \cup {"struct", "new_message", "reset_rammbock"} =>
             PendingKept]_vars

\* client_sends_message has sent a message encoded with the recorded field
\* value and none is pending
C6_Witness ==
    /\ last.op = "client_sends_message"
    /\ last.sent
    /\ "f" \in DOMAIN last.env
    /\ last.env["f"] = <<"1">>
    /\ field_values = Dict(EmptyDict)

OpenOps == {"struct", "new_list", "union", "new_binary_container"}
CloseOps == {"end_struct", "end_list", "end_union", "end_binary_container"}

\* The type of container a keyword opens or closes
TypeOf(op) ==
    CASE op \in {"struct", "end_struct"} -> "struct"
      [] op \in {"new_list", "end_list"} -> "list"
      [] op \in {"union", "end_union"} -> "union"
      [] op \in {"new_binary_container", "end_binary_container"} -> "binary_container"

\* C7: a close keyword called while the innermost open container is of
\* another type fails, and the container is added to no parent: the stack and
\* the protocols hold the fields they held.
C7_CloseRequiresMatchingType ==
    [][\A op \in CloseOps :
          (/\ last'.op = op
           /\ message_stack # <<>>
           /\ Top(message_stack).type \in {TypeOf(o) : o \in OpenOps}
           /\ Top(message_stack).type # TypeOf(op)) =>
              /\ last'.res # "ok"
              /\ protoObjs' = protoObjs
              /\ \A i \in 1..Len(message_stack') :
                    i <= Len(message_stack) /\ message_stack'[i].fields = message_stack[i].fields]_vars

\* C8: an open keyword that succeeds pushes exactly one container, with no
\* fields, whose parent is the container that was on top of the stack; the
\* matching close keyword (its verify passing, for a binary container) pops
\* exactly that container and appends it to the fields of the new top of the
\* stack, and to nothing else.
C8_OpenPushesClosePops ==
    [][/\ \A op \in OpenOps :
             (last'.op = op /\ last'.res = "ok") =>
                 /\ message_stack # <<>>
                 /\ Len(message_stack') = Len(message_stack) + 1
                 /\ Pop(message_stack') = message_stack
                 /\ Top(message_stack').type = TypeOf(op)
                 /\ Top(message_stack').parent = Top(message_stack).id
                 /\ Top(message_stack').fields = <<>>
                 /\ protoObjs' = protoObjs
       /\ \A op \in CloseOps :
             (/\ last'.op = op
              /\ message_stack # <<>>
              /\ Top(message_stack).type = TypeOf(op)
              /\ op = "end_binary_container" => Verify(Top(message_stack)) = "ok") =>
                 /\ last'.res = "ok"
                 /\ Len(message_stack') = Len(message_stack) - 1
                 /\ message_stack' # <<>>
                 /\ Pop(message_stack') = Pop(Pop(message_stack))
                 /\ Top(message_stack').id = Top(message_stack).parent
                 /\ Top(message_stack')
                       = ContainerAdd(Top(Pop(message_stack)), Top(message_stack))
                 /\ protoObjs' = protoObjs]_vars

\* C9: from a successful new_message until the next new_message or
\* reset_rammbock the message stack is not empty and its base is the
\* MessageTemplate that new_message made.
C9_BaseIsMessageTemplate ==
    [][/\ (last'.op = "new_message" /\ last'.res = "ok") =>
             /\ Len(message_stack') = 1
             /\ message_stack'[1].type = "message"
       /\ (message_stack # <<>> /\ last'.op \notin {"new_message", "reset_rammbock"}) =>
             /\ message_stack' # <<>>
             /\ message_stack'[1].type = "message"
             /\ message_stack'[1].id = message_stack[1].id
             /\ message_stack'[1].name = message_stack[1].name
             /\ message_stack'[1].protocol = message_stack[1].protocol]_vars

\* C10: from end_protocol_description on, a registered Protocol keeps its
\* registry entry and its fields through every keyword but reset_rammbock.
C10_RegisteredProtocolKept ==
    [][last'.op # "reset_rammbock" =>
          \A n \in DOMAIN protocols :
              /\ n \in DOMAIN protocols'
              /\ protocols'[n] = protocols[n]
              /\ protocols[n] \in 1..Len(protoObjs')
              /\ protoObjs'[protocols[n]] = protoObjs[protocols[n]]]_vars

\* A field has been added to the protocol in progress while a protocol that
\* has fields is registered
C10_Witness ==
    /\ last.op \in AddOps
    /\ last.res = "ok"
    /\ protocol_in_progress # NoId
    /\ \E n \in DOMAIN protocols : protoObjs[protocols[n]].fields # <<>>

DefinitionOps == AddOps \cup OpenOps \cup CloseOps

\* C11 as stated: uint, chars, pdu and the keywords that open and close
\* containers leave the pending field values as they were.
C11_DefinitionKeepsPending ==
    [][last'.op \in DefinitionOps => field_values' = field_values]_vars

\* C11 as amended: uint, chars, pdu, the close keywords and the open keywords
\* other than struct leave the pending field values as they were, and the next
\* keyword that encodes is handed every one of them; struct either leaves them
\* (its parameters being malformed) or takes them all, as the parameters of the
\* struct it opens, and leaves none pending.
C11_DefinitionButStructKeepsPending ==
    [][/\ last'.op \in DefinitionOps \ {"struct"} => field_values' = field_values
       /\ (last'.op = "struct" /\ ~field_values.none) =>
             \/ last'.res # "ok" /\ field_values' = field_values
             \/ /\ field_values' = Dict(EmptyDict)
                /\ last'.res = "ok" =>
                      \A k \in DOMAIN field_values.d :
                          /\ k \in DOMAIN Top(message_stack').params
                          /\ Top(message_stack').params[k] = field_values.d[k]
       /\ (last'.op \in EncodeOps /\ last'.consumed) =>
             \A k \in DOMAIN field_values.d : k \in DOMAIN last'.env]_vars

\* uint has added a field to the message template while a field value is
\* pending
C11_Witness ==
    /\ last.op = "uint"
    /\ last.res = "ok"
    /\ protocol_in_progress = NoId
    /\ message_stack # <<>>
    /\ "f" \in DOMAIN field_values.d

\* C12: a close keyword makes a binary container a field of a container or of
\* a protocol only if it is end_binary_container and verify passes.
C12_BinaryContainerVerified ==
    [][\A op \in CloseOps :
          (/\ last'.op = op
           /\ message_stack # <<>>
           /\ Top(message_stack).type = "binary_container"
           /\ Top(message_stack).id \in IdsOf(protoObjs') \cup IdsOf(message_stack')) =>
              /\ op = "end_binary_container"
              /\ Verify(Top(message_stack)) = "ok"]_vars

\* The index of the PDU among fields, one past the last field when there is none
PduIndex(fields) ==
    IF \E i \in 1..Len(fields) : IsPDU(fields[i])
    THEN CHOOSE i \in 1..Len(fields) : IsPDU(fields[i])
    ELSE Len(fields) + 1

\* The sum of the byte widths of the first n of fields
RECURSIVE WidthSum(_, _)
WidthSum(fields, n) ==
    IF n = 0 THEN 0 ELSE fields[n].length.value + WidthSum(fields, n - 1)

\* C13: header_length() of a Protocol built by add calls is the sum of the
\* static byte widths of the fields before the PDU, of all fields when there
\* is no PDU; the PDU and the fields after it count nothing.
C13_HeaderLength ==
    last.op = "Protocol.header_length" =>
        last.out = WidthSum(protoObjs[1].fields, PduIndex(protoObjs[1].fields) - 1)

\* header_length() of msgId, length, PDU, checksum is 4
C13_Witness ==
    /\ last.op = "Protocol.header_length"
    /\ Len(protoObjs[1].fields) = 4
    /\ IsPDU(protoObjs[1].fields[3])
    /\ protoObjs[1].fields[4].name = "checksum"
    /\ last.out = 4

\* The fields of the Protocol that have the name
Declared(name) ==
    {i \in 1..Len(protoObjs[1].fields) : protoObjs[1].fields[i].name = name}

\* C14: Protocol.add(PDU(expr)) fails and leaves the fields of the protocol as
\* they were whenever no field of the name in expr has been added; it succeeds,
\* appending the PDU, when a field of that name with a static length has been
\* added and the protocol holds no PDU yet, with or without a subtractor.
C14_PduLengthReference ==
    [][\A a \in PduExprs :
          Protocol_add(PDU(a)) =>
              IF Declared(a.field) = {}
              THEN last'.res # "ok" /\ protoObjs' = protoObjs
              ELSE IF /\ \E i \in Declared(a.field) : protoObjs[1].fields[i].length.static
                      /\ \A i \in 1..Len(protoObjs[1].fields) : ~IsPDU(protoObjs[1].fields[i])
              THEN /\ last'.res = "ok"
                   /\ Pop(protoObjs'[1].fields) = protoObjs[1].fields
                   /\ Top(protoObjs'[1].fields).type = "pdu"
                   /\ Top(protoObjs'[1].fields).length.field = a.field
                   /\ Top(protoObjs'[1].fields).length.subtractor = a.subtractor
              ELSE last'.res # "ok" /\ protoObjs' = protoObjs]_vars

\* add of a PDU has failed on a protocol that has fields, none of them the
\* one the PDU names
C14_Witness ==
    /\ last.op = "Protocol.add"
    /\ last.arg = "__pdu__"
    /\ last.res = "Exception"
    /\ protoObjs[1].fields # <<>>
    /\ Declared("length") = {}

\* C15: in every message encode produces, the header field the PDU's length
\* names holds the byte count of the payload plus the subtractor, whatever
\* default or value was given for it, and _raw is the bytes of the header
\* followed by the bytes of the payload.
C15_EncodedLength ==
    (last.op = "MessageTemplate.encode" /\ last.res = "ok") =>
        /\ last.out.produced
        /\ \E i \in 1..Len(last.out.header) :
              last.out.header[i].name = PduOf(protoObjs[1]).length.field
        /\ \A i \in 1..Len(last.out.header) :
              last.out.header[i].name = PduOf(protoObjs[1]).length.field =>
                  /\ last.out.header[i].int =
                        WidthSum(message_stack[1].fields, Len(message_stack[1].fields))
                        + PduOf(protoObjs[1]).length.subtractor
                  /\ last.out.header[i].bytes = ToBytes(last.out.header[i].int, 2)
        /\ last.out.raw = Raw(last.out.header \o last.out.fields)
        /\ Len(last.out.raw) = header_length(protoObjs[1].fields)
                               + WidthSum(message_stack[1].fields, Len(message_stack[1].fields))

\* msgId, length, PDU('length-4') and two payload fields of 2 bytes, encoded
\* with 99 given for length: length is 8 and _raw is 0x0005 0008 0001 0002
C15_Witness ==
    /\ last.op = "MessageTemplate.encode"
    /\ last.res = "ok"
    /\ "length" \in DOMAIN last.arg.header_fields
    /\ PduOf(protoObjs[1]).length.subtractor = 4
    /\ Len(last.out.header) = 2
    /\ last.out.header[2].name = "length"
    /\ last.out.header[2].int = 8
    /\ last.out.raw = <<0, 5, 0, 8, 0, 1, 0, 2>>

\* C16: for a dynamic Length with subtractor s and a number n, both at least 0,
\* solve_value(p) is p - s and solve_parameter(v) is v + s, so that
\* solve_value(solve_parameter(n)) = n and solve_parameter(solve_value(n)) = n;
\* with no subtractor both return what they are given.
C16_LengthRoundTrip ==
    [][/\ last'.op = "Length.solve_value" =>
            /\ last'.out = last'.arg.n - last'.arg.length.subtractor
            /\ last'.arg.length.subtractor = 0 => last'.out = last'.arg.n
            /\ (/\ last.op = "Length.solve_parameter"
                /\ last.arg.n \in Numbers
                /\ last'.arg = [length |-> last.arg.length, n |-> last.out]) =>
                    last'.out = last.arg.n
       /\ last'.op = "Length.solve_parameter" =>
            /\ last'.out = last'.arg.n + last'.arg.length.subtractor
            /\ last'.arg.length.subtractor = 0 => last'.out = last'.arg.n
            /\ (/\ last.op = "Length.solve_value"
                /\ last.arg.n \in Numbers
                /\ last'.arg = [length |-> last.arg.length, n |-> last.out]) =>
                    last'.out = last.arg.n]_vars

\* Length('length-8'): solve_value(18) has returned 10, 18 being what
\* solve_parameter(10) returned
C16_Witness ==
    /\ last.op = "Length.solve_value"
    /\ last.arg.length.subtractor = 8
    /\ last.arg.n = 18
    /\ last.out = 10

\* C17: encode raises, and produces no message, whenever message_fields holds
\* a name that is not the name of a field of the template.
C17_UnknownField ==
    (/\ last.op = "MessageTemplate.encode"
     /\ \E k \in DOMAIN last.arg.message_fields :
           \A i \in 1..Len(message_stack[1].fields) : message_stack[1].fields[i].name # k) =>
        last.res # "ok" /\ ~last.out.produced

\* encode has raised on a template with field_1, given field_1 and unknown
C17_Witness ==
    /\ last.op = "MessageTemplate.encode"
    /\ last.res = "Exception"
    /\ DOMAIN last.arg.message_fields = {"field_1", "unknown"}
    /\ "field_1" \in FieldNamesOf(message_stack[1])

\* Whether the token holds the character, and where it holds it first
Has(token, ch) == \E i \in 1..Len(token) : token[i] = ch
First(token, ch) == CHOOSE i \in 1..Len(token) : token[i] = ch /\ \A j \in 1..(i - 1) : token[j] # ch

\* The class of a token as the claim gives it
ClassOf(token) ==
    IF ~Has(token, ":") /\ ~Has(token, "=") THEN "error"
    ELSE IF ~Has(token, "=") THEN "field"
    ELSE IF ~Has(token, ":") THEN "config"
    ELSE IF First(token, ":") < First(token, "=") THEN "field"
    ELSE "config"

\* Where a token goes, "headers" for a field value of key 'header' whose value
\* holds ':', and the <<key, value>> it is there
PlaceOf(token) ==
    IF ClassOf(token) = "config" THEN "configs"
    ELSE IF /\ _name_and_value(":", token)[1] = "header"
            /\ Has(_name_and_value(":", token)[2], ":")
    THEN "headers"
    ELSE "fields"
EntryOf(token) ==
    IF PlaceOf(token) = "configs" THEN _name_and_value("=", token)
    ELSE IF PlaceOf(token) = "fields" THEN _name_and_value(":", token)
    ELSE LET v == _name_and_value(":", token)[2]
         IN <<SubSeq(v, 1, First(v, ":") - 1), SubSeq(v, First(v, ":") + 1, Len(v))>>

\* The dict holds the entries of the tokens of the place, the last of a key
PlacedIn(dict, parameters, place) ==
    /\ DOMAIN dict = {EntryOf(parameters[i])[1] :
                         i \in {j \in 1..Len(parameters) : PlaceOf(parameters[j]) = place}}
    /\ \A i \in 1..Len(parameters) :
          (/\ PlaceOf(parameters[i]) = place
           /\ \A j \in (i + 1)..Len(parameters) :
                 PlaceOf(parameters[j]) = place =>
                     EntryOf(parameters[j])[1] # EntryOf(parameters[i])[1]) =>
              dict[EntryOf(parameters[i])[1]] = EntryOf(parameters[i])[2]

\* C18: a token with neither ':' nor '=' is an error; one with only ':' is a
\* field value and one with only '=' a config; one with both is a field value
\* when its first ':' is before its first '=', a config otherwise. A field value
\* of key 'header' whose value holds ':' is a header override and is not among
\* the field values.
C18_TokenClasses ==
    last.op = "_parse_parameters" =>
        /\ last.res = "ok" <=> \A i \in 1..Len(last.arg) : ClassOf(last.arg[i]) # "error"
        /\ last.res = "ok" =>
              /\ PlacedIn(last.out.configs, last.arg, "configs")
              /\ PlacedIn(last.out.fields, last.arg, "fields")
              /\ PlacedIn(last.out.headers, last.arg, "headers")

\* name=a:b and header:h:1 have been parsed: a config and a header override,
\* and no field value
C18_Witness ==
    /\ last.op = "_parse_parameters"
    /\ last.res = "ok"
    /\ last.arg = <<(<<"name", "=", "a", ":", "b">>), (<<"header", ":", "h", ":", "1">>)>>
    /\ last.out.configs["name"] = <<"a", ":", "b">>
    /\ last.out.headers[<<"h">>] = <<"1">>
    /\ last.out.fields = EmptyDict

\* C19: reset_rammbock calls close() on every registered server and client
\* and leaves the session as it was at the start: no protocol in progress,
\* no protocol registered, no server and no client, an empty message stack and
\* no pending field values; a protocol description started next is accepted,
\* whatever names were registered before.
C19_ResetRestoresInit ==
    [][/\ last'.op = "reset_rammbock" =>
            /\ last'.res = "ok"
            /\ last'.closed = servers \cup clients
            /\ protocol_in_progress' = NoId
            /\ DOMAIN protocols' = {}
            /\ servers' = {}
            /\ clients' = {}
            /\ message_stack' = <<>>
            /\ field_values' = NoneDict
       /\ (last.op = "reset_rammbock" /\ last'.op = "start_protocol_description") =>
            last'.res = "ok" /\ protocol_in_progress' # NoId]_vars

\* reset_rammbock has closed a server and a client
C19_Witness ==
    /\ last.op = "reset_rammbock"
    /\ last.closed \cap ServerNames # {}
    /\ last.closed \cap ClientNames # {}

ValidatingOps == {"validate_message", "client_receives_message", "server_receives_message"}

\* C20: validate_message and client/server_receives_message raise an
\* AssertionError exactly when validate returned one or more diagnostics, and
\* the error holds the first of them; they complete normally, a receive
\* having read its message, when validate returned none; the
\* *_receives_without_validation keywords do not call validate.
C20_ValidationFailure ==
    /\ last.op \in ValidatingOps =>
          /\ last.res = "AssertionError" <=> (last.validated /\ last.errors # <<>>)
          /\ last.res = "AssertionError" => last.raised = last.errors[1]
          /\ (last.validated /\ last.errors = <<>>) => last.res = "ok"
          /\ last.res = "ok" => last.validated
          /\ (last.op # "validate_message" /\ last.res = "ok") => last.read
    /\ last.op \in {"client_receives_without_validation", "server_receives_without_validation"} =>
          ~last.validated /\ last.res # "AssertionError"

\* validate_message has raised the first of two diagnostics
C20_Witness ==
    /\ last.op = "validate_message"
    /\ last.res = "AssertionError"
    /\ last.errors = <<"ValueMismatch", "MissingField">>
    /\ last.raised = "ValueMismatch"

HandOps == EncodeOps \ {"validate_message"}

\* C21: get_message, the send and the receive keywords hand over every field
\* name that is pending from value() or given as a 'name:w' parameter: a name
\* that is both pending with v and given with w goes with w, a name that is
\* only pending with the value recorded, a name that is only given with the
\* value of the parameter.
C21_ParameterOverridesValue ==
    (last.op \in HandOps /\ last.consumed) =>
        /\ DOMAIN last.env = DOMAIN last.pending \cup DOMAIN last.given
        /\ \A k \in DOMAIN last.given : last.env[k] = last.given[k]
        /\ \A k \in DOMAIN last.pending \ DOMAIN last.given : last.env[k] = last.pending[k]

\* client_sends_message has sent a message encoded with f as 2, the value of
\* its parameter, f being pending as 1
C21_Witness ==
    /\ last.op = "client_sends_message"
    /\ last.sent
    /\ "f" \in DOMAIN last.pending
    /\ last.pending["f"] = <<"1">>
    /\ "f" \in DOMAIN last.given
    /\ last.given["f"] = <<"2">>
    /\ last.env["f"] = <<"2">>

====
